---- MODULE Spec2Model ----
(***************************************************************************)
(* Model of app/websocket_manager.py (class ConnectionManager) and of the *)
(* way app/routers/websocket.py and app/routers/api.py drive it.          *)
(*                                                                         *)
(* The program runs on one asyncio event loop: code between two `await`s  *)
(* is atomic, and tasks interleave only at `await websocket.send_text`,   *)
(* `await websocket.accept` and `await websocket.receive_text`.  Every    *)
(* action below is one such atomic block.                                  *)
(***************************************************************************)
EXTENDS Integers, FiniteSets, Sequences, TLC

\* ---------------------------------------------------------------- bounds
MaxClient == 2      \* connection ids ever generated (uuid4, never reused)
MaxRoom == 2        \* room ids 1..MaxRoom
MaxUser == 1        \* user ids 1..MaxUser
MaxSweep == 1       \* broadcast calls in progress at once, in Spec
MaxOverlap == 2     \* broadcast calls in progress at once, in SpecOverlap
MaxAttempts == 2    \* cap on the yields of an iterator over a modified set
MaxRefused == 1     \* connect calls counted whose accept() raised
MaxPeer == 2        \* connections opened by the endpoints, in SpecEndpoint
MaxFrames == 2      \* inbound frames the endpoints read, in SpecEndpoint
MaxMember == 3      \* connections opened by the room endpoint, in SpecRoom
MaxOwner == 2       \* user ids 1..MaxOwner, in SpecDevices


\* Python's None for user_id / room_id.  The manager only tests these with
\* `if room_id:` / `if user_id:`, so None is the falsy value.
None == 0

Clients == 1..MaxClient
Rooms == 1..MaxRoom
Users == 1..MaxUser
Sweeps == 1..MaxSweep
Slots == 1..MaxOverlap
Peers == 1..MaxMember
Owners == 1..MaxOwner


VARIABLES
    active_connections,   \* keys of self.active_connections (id -> WebSocket)
    room_connections,     \* self.room_connections: room id -> set of ids
    user_connections,     \* self.user_connections: user id -> set of ids
    connection_info,      \* self.connection_info: id -> [user_id, room_id]
    next_id,              \* next fresh client id (uuid4 is never repeated)
    closed,               \* ids whose transport the peer has closed
    sweeps,               \* one record per broadcast call slot
    raised,               \* a connect/disconnect/join_room/leave_room call
                          \* ended in an exception (a KeyError, or the
                          \* failed database write of a connect)
    personal,             \* ids with a send_personal_message call suspended
                          \* in `await websocket.send_text`
    refused,              \* number of connect calls that ended in the
                          \* exception of `await websocket.accept()`
    handler,              \* id -> the position of the endpoint coroutine
                          \* of routers/websocket.py serving the connection
    stored,               \* the rows of table messages, in insertion order
    frames                \* number of frames read by the endpoints

vars == <<active_connections, room_connections, user_connections,
          connection_info, next_id, closed, sweeps, raised, personal, refused,
          handler, stored, frames>>

endpoints == <<handler, stored, frames>>

registry == <<active_connections, room_connections, user_connections,
              connection_info>>

\* ------------------------------------------------------- dict/set helpers
\* d[k].add(c), creating d[k] = set() first when k is not a key
SetAdd(d, k, c) ==
    [x \in DOMAIN d \cup {k} |->
        IF x = k THEN (IF k \in DOMAIN d THEN d[k] ELSE {}) \cup {c}
                 ELSE d[x]]

\* d.pop(k)
Pop(d, k) == [x \in DOMAIN d \ {k} |-> d[x]]

\* d[k].remove(c)  (k is a key of d)
SetRemove(d, k, c) == [d EXCEPT ![k] = @ \ {c}]

\* `if not d[k]: d.pop(k)`
PruneIfEmpty(d, k) == IF d[k] = {} THEN Pop(d, k) ELSE d

\* The manager's four dicts as one value, so that a call can be applied
\* several times inside one atomic block (the cleanup loop of a broadcast).
Manager ==
    [active_connections |-> active_connections,
     room_connections   |-> room_connections,
     user_connections   |-> user_connections,
     connection_info    |-> connection_info,
     raised             |-> raised]

\* ------------------------------------------------ ConnectionManager calls
\* connect(), lines 29-54, after `await websocket.accept()` has returned
connect(m, client_id, user_id, room_id) ==
    [active_connections |-> m.active_connections \cup {client_id},
     connection_info    |->
        [x \in DOMAIN m.connection_info \cup {client_id} |->
            IF x = client_id THEN [user_id |-> user_id, room_id |-> room_id]
                             ELSE m.connection_info[x]],
     room_connections   |->
        IF room_id # None THEN SetAdd(m.room_connections, room_id, client_id)
                          ELSE m.room_connections,
     user_connections   |->
        IF user_id # None THEN SetAdd(m.user_connections, user_id, client_id)
                          ELSE m.user_connections,
     raised             |-> m.raised]

\* metadata.get("room_id") / metadata.get("user_id") with
\* metadata = self.connection_info.get(client_id, {})
InfoGet(m, client_id, field) ==
    IF client_id \in DOMAIN m.connection_info
    THEN m.connection_info[client_id][field]
    ELSE None

\* lines 85-87 and 92-94 without the `if not d[k]: d.pop(k)` that follows
DropFromIndex_unpruned(d, k, client_id) ==
    IF k # None /\ k \in DOMAIN d /\ client_id \in d[k]
    THEN SetRemove(d, k, client_id)
    ELSE d

\* lines 85-89 with the whole entry popped when a member goes
DropFromIndex_pops_entry(d, k, client_id) ==
    IF k # None /\ k \in DOMAIN d THEN Pop(d, k) ELSE d

\* lines 85-89 and 92-96 of disconnect(): the same code for both indexes
DropFromIndex(d, k, client_id) ==
    IF k # None /\ k \in DOMAIN d
    THEN PruneIfEmpty(IF client_id \in d[k] THEN SetRemove(d, k, client_id)
                                            ELSE d, k)
    ELSE d

\* disconnect() without the early return of lines 73-74
disconnect_unguarded(m, client_id) ==
    [raised             |-> m.raised \/ client_id \notin m.active_connections,
     active_connections |-> m.active_connections \ {client_id},
     connection_info    |-> Pop(m.connection_info, client_id),
     room_connections   |->
         DropFromIndex(m.room_connections,
                       InfoGet(m, client_id, "room_id"), client_id),
     user_connections   |->
         DropFromIndex(m.user_connections,
                       InfoGet(m, client_id, "user_id"), client_id)]

\* disconnect() without line 82, `self.connection_info.pop(client_id, None)`
disconnect_keeps_record(m, client_id) ==
    IF client_id \notin m.active_connections
    THEN m
    ELSE [disconnect_unguarded(m, client_id) EXCEPT
            !.connection_info = m.connection_info]

\* disconnect() without lines 92-96: the id stays in its user's set
disconnect_keeps_user_entry(m, client_id) ==
    IF client_id \notin m.active_connections
    THEN m
    ELSE [disconnect_unguarded(m, client_id) EXCEPT
            !.user_connections = m.user_connections]

disconnect(m, client_id) ==
    IF client_id \notin m.active_connections
    THEN m
    ELSE [\* line 81: dict.pop(key) with no default raises KeyError
          raised             |-> m.raised \/ client_id \notin m.active_connections,
          active_connections |-> m.active_connections \ {client_id},
          connection_info    |-> Pop(m.connection_info, client_id),
          room_connections   |->
              DropFromIndex(m.room_connections,
                            InfoGet(m, client_id, "room_id"), client_id),
          user_connections   |->
              DropFromIndex(m.user_connections,
                            InfoGet(m, client_id, "user_id"), client_id)]

join_room_ret(m, client_id, room_id) == client_id \in m.active_connections

\* join_room() without the early return of lines 189-190
join_room_unguarded(m, client_id, room_id) ==
    [m EXCEPT
        !.room_connections = SetAdd(@, room_id, client_id),
        !.connection_info =
            IF client_id \in DOMAIN @
            THEN [@ EXCEPT ![client_id].room_id = room_id]
            ELSE @]

\* join_room without lines 193-195: the record is written, the set is not
join_room_record_only(m, client_id, room_id) ==
    IF client_id \in m.active_connections /\ client_id \in DOMAIN m.connection_info
    THEN [m EXCEPT !.connection_info[client_id].room_id = room_id]
    ELSE m

\* join_room that moves the connection: it takes the id out of the set of
\* the room its record names before lines 193-199, also when that is the
\* room it joins and the id was its only member
join_room_moves(m, client_id, room_id) ==
    IF client_id \notin m.active_connections THEN m
    ELSE LET old == InfoGet(m, client_id, "room_id")
             left == IF old # None /\ old \in DOMAIN m.room_connections
                     THEN PruneIfEmpty(SetRemove(m.room_connections, old,
                                                 client_id), old)
                     ELSE m.room_connections
         IN [m EXCEPT
               !.room_connections =
                   IF old = room_id THEN left
                   ELSE SetAdd(left, room_id, client_id),
               !.connection_info =
                   IF client_id \in DOMAIN @
                   THEN [@ EXCEPT ![client_id].room_id = room_id]
                   ELSE @]

join_room(m, client_id, room_id) ==
    IF ~join_room_ret(m, client_id, room_id)
    THEN m
    ELSE [m EXCEPT
            !.room_connections = SetAdd(@, room_id, client_id),
            !.connection_info =
                IF client_id \in DOMAIN @
                THEN [@ EXCEPT ![client_id].room_id = room_id]
                ELSE @]

leave_room_ret(m, client_id, room_id) ==
    ~(\/ room_id \notin DOMAIN m.room_connections
      \/ client_id \notin m.room_connections[room_id])

\* leave_room without lines 220-224: the record is written, the set is not
leave_room_record_only(m, client_id, room_id) ==
    IF leave_room_ret(m, client_id, room_id)
       /\ client_id \in DOMAIN m.connection_info
    THEN [m EXCEPT !.connection_info[client_id].room_id = None]
    ELSE m

leave_room(m, client_id, room_id) ==
    IF ~leave_room_ret(m, client_id, room_id)
    THEN m
    ELSE [m EXCEPT
            \* line 220: set.remove(x) raises KeyError when x is missing
            !.raised = @ \/ ~leave_room_ret(m, client_id, room_id),
            !.room_connections =
                PruneIfEmpty(SetRemove(@, room_id, client_id), room_id),
            !.connection_info =
                IF client_id \in DOMAIN @
                THEN [@ EXCEPT ![client_id].room_id = None]
                ELSE @]

\* connect() with the handle stored before the transport is accepted
connect_registers_first(m, user_id, room_id) ==
    connect(m, next_id, user_id, room_id)

\* connect() called with a database session (routers/websocket.py lines 62
\* and 286) when db.add / db.commit() of lines 57-67 raises: lines 34-54
\* have run, and the exception leaves the call instead of `return client_id`
connect_commit_fails(m, client_id, user_id, room_id) ==
    [connect(m, client_id, user_id, room_id) EXCEPT !.raised = TRUE]

\* connect() when `await websocket.accept()` (line 27) raises: the exception
\* leaves the call before line 29, none of the four dicts has been touched
connect_accept_fails(m, user_id, room_id) == m

\* `self.connection_info[client_id]["last_active"] = datetime.now()` with no
\* test before it: indexing a missing key raises KeyError.  The timestamps of
\* a record are written and never read by the program; they are not part of
\* the model's records.
touch_unguarded(m, client_id) ==
    [m EXCEPT !.raised = @ \/ client_id \notin DOMAIN m.connection_info]

\* the update written as `self.connection_info.setdefault(client_id, {})`
\* [...] = now: a record appears for an id that has none
touch_recreates(m, client_id) ==
    [m EXCEPT !.connection_info =
        [x \in DOMAIN @ \cup {client_id} |->
            IF x \in DOMAIN @ THEN @[x]
            ELSE [user_id |-> None, room_id |-> None]]]

\* the update written as `self.connection_info[client_id] = {"last_active":
\* now}`: the record is replaced, or made when there is none
touch_overwrites(m, client_id) ==
    [m EXCEPT !.connection_info =
        [x \in DOMAIN @ \cup {client_id} |->
            IF x = client_id THEN [user_id |-> None, room_id |-> None]
            ELSE @[x]]]

\* lines 114-115 (and 124-125, 145-146, 166-167): "Update last active"
touch(m, client_id) ==
    IF client_id \in DOMAIN m.connection_info
    THEN touch_unguarded(m, client_id)
    ELSE m

\* get_connections_info(): the fields of the WSConnectionInfo it returns.
\* It has no await and writes nothing.
get_connections_info(m) ==
    [total_connections   |-> Cardinality(DOMAIN m.connection_info),
     active_connections  |-> Cardinality(m.active_connections),
     connections_by_room |->
        [room_id \in DOMAIN m.room_connections |->
            Cardinality(m.room_connections[room_id])]]

\* for client_id in disconnected: self.disconnect(client_id)
\* (disconnected is kept as the set of its elements: disconnect of an id
\* already removed changes nothing, and disconnects of different ids touch
\* different entries, so neither order nor repetition matters here)
RECURSIVE disconnect_all(_, _)
disconnect_all(m, disconnected) ==
    IF disconnected = {}
    THEN m
    ELSE LET c == CHOOSE x \in disconnected : TRUE IN
         disconnect_all(disconnect(m, c), disconnected \ {c})

\* The ids a broadcast_to_room(message, room_id) calls send_text for when
\* nothing else runs during its sends: lines 135-141.
Recipients(m, room_id) ==
    IF room_id \in DOMAIN m.room_connections
    THEN m.room_connections[room_id] \cap m.active_connections
    ELSE {}

\* ------------------------------------------------------- broadcast sweeps
\* A sweep is one call of broadcast / broadcast_to_room / broadcast_to_user.
\* It is suspended only inside `await websocket.send_text(...)`.
\*   cur           the id whose send_text is pending
\*   attempted     the ids send_text was called for
\*   delivered     the ids whose send_text returned
\*   disconnected  the elements of the local list `disconnected`
\*   n             number of send_text calls made
\*   again         send_text was called for an id a second time
\*   twice         an id was appended to `disconnected` a second time
\*   used          len() of the iterated container when the loop started
\*   obj           what happened to the iterated container object since:
\*                 "clean", "mutated" (an add or remove), or "popped" (the
\*                 set was emptied and removed from its dict; a later set
\*                 under the same key is another object)
Idle ==
    [status |-> "idle", kind |-> "none", target |-> None, cur |-> None,
     attempted |-> {}, delivered |-> {}, disconnected |-> {}, n |-> 0,
     again |-> FALSE, twice |-> FALSE, used |-> 0, obj |-> "clean"]

\* self.room_connections[room_id], self.user_connections[user_id] or
\* self.active_connections, as the object the loop of sweep sw iterates
Container(m, sw) ==
    IF sw.obj = "popped" THEN {}
    ELSE IF sw.kind = "all" THEN m.active_connections
    ELSE IF sw.kind = "room" THEN
        (IF sw.target \in DOMAIN m.room_connections
         THEN m.room_connections[sw.target] ELSE {})
    ELSE
        (IF sw.target \in DOMAIN m.user_connections
         THEN m.user_connections[sw.target] ELSE {})

\* The effect on a suspended sweep of a manager call that took the dicts
\* from m0 to m1: its container object was popped, modified or left alone.
Touch(sw, m0, m1) ==
    IF sw.status # "sending" \/ sw.obj = "popped" THEN sw
    ELSE IF /\ sw.kind = "room"
            /\ sw.target \notin DOMAIN m1.room_connections
         THEN [sw EXCEPT !.obj = "popped"]
    ELSE IF /\ sw.kind = "user"
            /\ sw.target \notin DOMAIN m1.user_connections
         THEN [sw EXCEPT !.obj = "popped"]
    ELSE IF Container(m1, sw) # Container(m0, sw)
         THEN [sw EXCEPT !.obj = "mutated"]
    ELSE sw

\* Python raises RuntimeError("Set changed size during iteration") /
\* ("dictionary changed size during iteration") when the container's size
\* differs from the size at the start of the loop.
IterRaises(m, sw) == Cardinality(Container(m, sw)) # sw.used

\* The ids the loop can call send_text for next.
\*  - set, not modified: any member not yet yielded; members that fail
\*    `if client_id in self.active_connections` are passed over in the same
\*    atomic block.
\*  - dict, not modified: insertion order, which is the order of the ids.
\*  - modified but of the same size: the iterator walks a table whose slots
\*    were rewritten, so it may yield a member again or miss members.
Candidates(m, sw) ==
    LET members == Container(m, sw) \cap m.active_connections IN
    IF sw.obj = "clean" THEN
        IF sw.kind = "all"
        THEN LET rest == {c \in members : c > sw.cur} IN
             {c \in rest : \A d \in rest : c <= d}
        ELSE members \ sw.attempted
    ELSE IF sw.n >= MaxAttempts THEN {}
    ELSE IF sw.kind = "all"
         THEN {c \in members : c > sw.cur}
    ELSE members

\* The loop can run out of elements.
CanEnd(m, sw) == sw.obj # "clean" \/ Candidates(m, sw) = {}

\* ------------------------------------------------------------- state change
\* Installs manager value m as the next state of the four dicts.
SetManager(m) ==
    /\ active_connections' = m.active_connections
    /\ room_connections' = m.room_connections
    /\ user_connections' = m.user_connections
    /\ connection_info' = m.connection_info
    /\ raised' = m.raised

\* The frames of the broadcast calls still in progress.  The record of a
\* call that has returned or raised is its report: it is visible in the
\* state the call ends in, and the frame is gone with the next step.
Live == [s \in Slots |-> IF sweeps[s].status = "sending" THEN sweeps[s] ELSE Idle]

\* A manager call by a task other than the sweeps: the dicts become m and
\* every suspended sweep sees its container changed.
Call(m) ==
    /\ SetManager(m)
    /\ sweeps' = [s \in Slots |-> Touch(Live[s], Manager, m)]

\* The coroutine of an endpoint of routers/websocket.py, for a connection:
\*   ep     "ws" (/ws), "auth" (/ws/auth) or "room" (/ws/room/{room_id})
\*   pc     "recv" (in receive_text), "personal" (in the send_text of
\*          send_personal_message), "sweep" (in broadcast_to_room), "ended"
\*          (returned), "crashed" (left by an exception), "none" (no call)
\*   phase  "setup" (before the try), "loop" (in the try), "teardown" (in
\*          the except WebSocketDisconnect clause)
\*   ev     type of the event being sent
\*   room   the room_id argument of the broadcast and field of the event
\*   todo   type of the event broadcast to `room` after the personal send
\*   slot   the slot of its broadcast call
\*   path   the room_id of the URL, user the id of the token's user
\*   msgs   ids of the messages in a message_history or message event
\*   frame  kind of the frame being handled (see Frames)
\*   since  number of Message rows when connect ran: the connection's
\*          connected_at (line 40) on the clock of the message ids
NoHandler ==
    [ep |-> "none", pc |-> "none", phase |-> "none", ev |-> "none",
     room |-> None, todo |-> "none", slot |-> 0, path |-> None,
     user |-> None, msgs |-> {}, frame |-> "none", since |-> 0]

Init ==
    /\ active_connections = {}
    /\ room_connections = << >>
    /\ user_connections = << >>
    /\ connection_info = << >>
    /\ next_id = 1
    /\ closed = {}
    /\ sweeps = [s \in Slots |-> Idle]
    /\ raised = FALSE
    /\ personal = {}
    /\ refused = 0
    /\ handler = [c \in Peers |-> NoHandler]
    /\ stored = << >>
    /\ frames = 0


\* An endpoint calls manager.connect(websocket, user_id=..., room_id=...):
\* routers/websocket.py lines 21, 62, 286.  client_id is never passed, so
\* the id is a fresh uuid4.
Connect(user_id, room_id) ==
    /\ next_id <= MaxClient
    /\ Call(connect(Manager, next_id, user_id, room_id))
    /\ next_id' = next_id + 1
    /\ UNCHANGED <<closed, personal, refused, endpoints>>

\* The peer goes away; from now on sends to it fail and the endpoint's
\* receive_text raises WebSocketDisconnect.
TransportClose(c) ==
    /\ c \in active_connections
    /\ c \notin closed
    /\ closed' = closed \cup {c}
    /\ sweeps' = Live
    /\ UNCHANGED <<registry, next_id, raised, personal, refused, endpoints>>

\* manager.disconnect(client_id) called by an endpoint after receive_text
\* raised WebSocketDisconnect (routers/websocket.py lines 49, 238, 398), or
\* called for an id that is not registered.
Disconnect(c) ==
    /\ c \in closed \/ c \notin active_connections
    /\ Call(disconnect(Manager, c))
    /\ UNCHANGED <<next_id, closed, personal, refused, endpoints>>

JoinRoom(c, r) ==
    /\ Call(join_room(Manager, c, r))
    /\ UNCHANGED <<next_id, closed, personal, refused, endpoints>>

LeaveRoom(c, r) ==
    /\ Call(leave_room(Manager, c, r))
    /\ UNCHANGED <<next_id, closed, personal, refused, endpoints>>

\* A connect call whose `await websocket.accept()` raises (the peer went away
\* during the handshake): routers/websocket.py lines 21, 62, 286 let the
\* exception leave the endpoint.
AcceptRaises(user_id, room_id) ==
    /\ refused < MaxRefused
    /\ refused' = refused + 1
    /\ Call(connect_accept_fails(Manager, user_id, room_id))
    /\ UNCHANGED <<next_id, closed, personal, endpoints>>

\* A connect call of an authenticated endpoint whose accept has returned and
\* whose write of the WebSocketConnection row raises (the database file is
\* locked or not writable): the exception leaves connect and the endpoint.
ConnectCommitRaises(user_id, room_id) ==
    /\ next_id <= MaxClient
    /\ Call(connect_commit_fails(Manager, next_id, user_id, room_id))
    /\ next_id' = next_id + 1
    /\ UNCHANGED <<closed, personal, refused, endpoints>>

\* await manager.send_personal_message(message, client_id), up to its
\* suspension in send_text; for an id that is no key of active_connections
\* the call returns at once (line 110).  An endpoint awaits one such call at
\* a time for its own connection.
SendPersonalMessage(c) ==
    /\ c \notin personal
    /\ personal' = IF c \in active_connections THEN personal \cup {c}
                                               ELSE personal
    /\ sweeps' = Live
    /\ UNCHANGED <<registry, raised, next_id, closed, refused, endpoints>>

\* The pending send_text of a personal message returns (the bytes of a send
\* begun before the peer closed may already be with the transport), and
\* lines 114-115 run.
PersonalReturns(c) ==
    /\ c \in personal
    /\ personal' = personal \ {c}
    /\ Call(touch(Manager, c))
    /\ UNCHANGED <<next_id, closed, refused, endpoints>>

\* The pending send_text of a personal message raises: nothing in
\* send_personal_message catches it, the exception goes to the endpoint.
PersonalRaises(c) ==
    /\ c \in personal
    /\ c \in closed
    /\ personal' = personal \ {c}
    /\ sweeps' = Live
    /\ UNCHANGED <<registry, raised, next_id, closed, refused, endpoints>>

\* What is left of a call's frame when the call ends with the given status:
\* its report.  The iterator (used, obj, n) is gone, and so is the pending
\* id unless the call ends in the exception of that very send.
Report(sw, status) ==
    [sw EXCEPT !.status = status,
               !.cur = IF status = "send_error" THEN @ ELSE None,
               !.n = 0, !.used = 0, !.obj = "clean"]

\* The slot a new broadcast call takes: the first one with no call running.
FreeSlot(s) ==
    /\ sweeps[s].status # "sending"
    /\ \A t \in Slots : t < s => sweeps[t].status = "sending"

\* From the top of the loop to the next suspension or to the return of the
\* call.  sw is the sweep's record with the last send accounted for.
Continue(s, sw) ==
    IF IterRaises(Manager, sw)
    THEN /\ sweeps' = [Live EXCEPT ![s] = Report(sw, "iter_error")]
         /\ UNCHANGED <<registry, raised>>
    ELSE \/ \E c \in Candidates(Manager, sw) :
              /\ sweeps' = [Live EXCEPT
                              ![s] = [sw EXCEPT !.status = "sending",
                                                !.cur = c,
                                                !.attempted = @ \cup {c},
                                                !.n = @ + 1,
                                                !.again = @ \/ c \in sw.attempted]]
              /\ UNCHANGED <<registry, raised>>
         \/ /\ CanEnd(Manager, sw)
            /\ LET m == disconnect_all(Manager, sw.disconnected) IN
                 /\ SetManager(m)
                 /\ sweeps' = [t \in Slots |->
                                 IF t = s THEN Report(sw, "done")
                                 ELSE Touch(Live[t], Manager, m)]

NewSweep(kind, target) ==
    [Idle EXCEPT !.kind = kind, !.target = target]

Started(sw) ==
    [sw EXCEPT !.used = Cardinality(Container(Manager, sw))]

\* await manager.broadcast(message)
Broadcast(s) ==
    /\ FreeSlot(s)
    /\ Continue(s, Started(NewSweep("all", None)))
    /\ UNCHANGED <<next_id, closed, personal, refused, endpoints>>

\* await manager.broadcast_to_room(message, room_id)
BroadcastToRoom(s, r) ==
    /\ FreeSlot(s)
    /\ IF r \notin DOMAIN room_connections
       THEN /\ sweeps' = [Live EXCEPT
                            ![s] = Report(NewSweep("room", r), "done")]
            /\ UNCHANGED <<registry, raised>>
       ELSE Continue(s, Started(NewSweep("room", r)))
    /\ UNCHANGED <<next_id, closed, personal, refused, endpoints>>

\* await manager.broadcast_to_user(message, user_id)
BroadcastToUser(s, u) ==
    /\ FreeSlot(s)
    /\ IF u \notin DOMAIN user_connections
       THEN /\ sweeps' = [Live EXCEPT
                            ![s] = Report(NewSweep("user", u), "done")]
            /\ UNCHANGED <<registry, raised>>
       ELSE Continue(s, Started(NewSweep("user", u)))
    /\ UNCHANGED <<next_id, closed, personal, refused, endpoints>>

\* The pending send_text of sweep s returns.
SendReturns(s) ==
    LET sw == sweeps[s] IN
    /\ sw.status = "sending"
    /\ sw.cur \notin closed
    /\ Continue(s, [sw EXCEPT !.delivered = @ \cup {sw.cur}])
    /\ UNCHANGED <<next_id, closed, personal, refused, endpoints>>

\* The pending send_text raises WebSocketDisconnect, which the loop catches.
SendDisconnects(s) ==
    LET sw == sweeps[s] IN
    /\ sw.status = "sending"
    /\ sw.cur \in closed
    /\ Continue(s, [sw EXCEPT !.disconnected = @ \cup {sw.cur},
                               !.twice = @ \/ sw.cur \in sw.disconnected])
    /\ UNCHANGED <<next_id, closed, personal, refused, endpoints>>

\* The pending send_text raises another exception (RuntimeError from a
\* websocket that is already closed, an OSError of the server): no handler
\* in the loop, the exception leaves the broadcast call.
SendRaises(s) ==
    LET sw == sweeps[s] IN
    /\ sw.status = "sending"
    /\ sw.cur \in closed
    /\ sweeps' = [Live EXCEPT ![s] = Report(sw, "send_error")]
    /\ UNCHANGED <<registry, raised, next_id, closed, personal, refused, endpoints>>

Next ==
    \/ \E u \in Users \cup {None}, r \in Rooms \cup {None} : Connect(u, r)
    \/ \E c \in Clients : TransportClose(c)
    \/ \E c \in Clients : Disconnect(c)
    \/ \E c \in Clients, r \in Rooms : JoinRoom(c, r)
    \/ \E c \in Clients, r \in Rooms : LeaveRoom(c, r)
    \/ \E s \in Sweeps : Broadcast(s)
    \/ \E s \in Sweeps, r \in Rooms : BroadcastToRoom(s, r)
    \/ \E s \in Sweeps, u \in Users : BroadcastToUser(s, u)
    \/ \E s \in Sweeps : SendReturns(s)
    \/ \E s \in Sweeps : SendDisconnects(s)
    \/ \E s \in Sweeps : SendRaises(s)

Spec == Init /\ [][Next]_vars

\* Several broadcast_to_room calls in progress at once (the endpoints of
\* routers/websocket.py and routers/api.py only ever call this broadcast),
\* over connections of the plain endpoint, which carry no user id.
NextOverlap ==
    \/ Connect(None, None)
    \/ \E c \in Clients : TransportClose(c)
    \/ \E c \in Clients : Disconnect(c)
    \/ \E c \in Clients, r \in Rooms : JoinRoom(c, r)
    \/ \E s \in Slots, r \in Rooms : BroadcastToRoom(s, r)
    \/ \E s \in Slots : SendReturns(s)
    \/ \E s \in Slots : SendDisconnects(s)
    \/ \E s \in Slots : SendRaises(s)

SpecOverlap == Init /\ [][NextOverlap]_vars

\* The registry calls alone: connections come (or fail in the handshake),
\* move between rooms and go, with no broadcast in progress.
NextRegistry ==
    \/ \E u \in Users \cup {None}, r \in Rooms \cup {None} : Connect(u, r)
    \/ \E u \in Users \cup {None}, r \in Rooms \cup {None} : AcceptRaises(u, r)
    \/ \E c \in Clients : TransportClose(c)
    \/ \E c \in Clients : Disconnect(c)
    \/ \E c \in Clients, r \in Rooms : JoinRoom(c, r)
    \/ \E c \in Clients, r \in Rooms : LeaveRoom(c, r)

SpecRegistry == Init /\ [][NextRegistry]_vars

\* The registry calls, with connect calls whose database write fails.
NextDatastore ==
    \/ NextRegistry
    \/ \E u \in Users, r \in Rooms \cup {None} : ConnectCommitRaises(u, r)

SpecDatastore == Init /\ [][NextDatastore]_vars

\* The registry calls for the connections of several users, each of which
\* may be connected from more than one device.
NextDevices ==
    \/ \E u \in Owners \cup {None}, r \in Rooms \cup {None} : Connect(u, r)
    \/ \E c \in Clients : TransportClose(c)
    \/ \E c \in Clients : Disconnect(c)
    \/ \E c \in Clients, r \in Rooms : JoinRoom(c, r)
    \/ \E c \in Clients, r \in Rooms : LeaveRoom(c, r)

SpecDevices == Init /\ [][NextDevices]_vars


\* The event loop resumes a task when the send it awaits has completed or
\* failed, and the endpoint of a connection whose peer is gone gets
\* WebSocketDisconnect from receive_text and calls manager.disconnect
\* (routers/websocket.py lines 48-49, 236-238, 396-398).
FairSpec ==
    /\ Spec
    /\ \A s \in Sweeps : WF_vars(SendReturns(s))
    /\ \A s \in Sweeps : WF_vars(SendDisconnects(s) \/ SendRaises(s))
    /\ \A c \in Clients : WF_vars(c \in active_connections /\ Disconnect(c))

\* A peer that has stopped reading: the transport's buffers are full and
\* `await websocket.send_text` to it (line 143) stays suspended.  Nothing
\* in the program bounds the wait, so the scheduling promises the completion
\* of a send only for the other peers.
StalledClient == 1

StallSpec ==
    /\ Spec
    /\ \A s \in Sweeps :
          WF_vars(sweeps[s].cur # StalledClient /\ SendReturns(s))
    /\ \A s \in Sweeps : WF_vars(SendDisconnects(s) \/ SendRaises(s))
    /\ \A c \in Clients : WF_vars(c \in active_connections /\ Disconnect(c))

\* ---------------------------------------------------------------- endpoints
\* The coroutines of routers/websocket.py.  An endpoint reads one frame at a
\* time and handles it to the end before it reads the next; it is suspended
\* in receive_text, in the send_text of a personal message, or in the
\* send_text of its broadcast.

\* A room id with no row in table chat_rooms: the query of lines 119-123
\* returns None for it.
NoSuchRoom == MaxRoom + 1

\* message_data.get("room_id") of a frame: a room, None (the key is missing
\* or falsy), or the id of a room that does not exist
FrameRooms == Rooms \cup {None, NoSuchRoom}

\* The text frames a peer can send, by what lines 78-235 make of them:
\*   "not_json"     json.loads raises JSONDecodeError
\*   "not_mapping"  json.loads returns a list, a number, a string or null
\*   "unknown"      a mapping whose "type" is none of the handled ones
\*   the others     a mapping with that "type" ("message" also when the key
\*                  is missing); content is the truth value of "content"
Frames ==
    {[type |-> t, room_id |-> None, content |-> FALSE] :
        t \in {"not_json", "not_mapping", "unknown", "ping"}}
    \cup {[type |-> t, room_id |-> r, content |-> FALSE] :
        t \in {"typing", "join_room", "leave_room"}, r \in FrameRooms}
    \cup {[type |-> "message", room_id |-> r, content |-> b] :
        r \in FrameRooms, b \in BOOLEAN}

\* What handling a frame comes to: the dicts after the manager calls, whether
\* a Message row is written, the event sent to the sender (ev), the event
\* broadcast afterwards (todo) to room, or the exception that leaves the try.
Outcome(m, ev, todo, room) ==
    [raises |-> FALSE, m |-> m, store |-> FALSE,
     ev |-> ev, todo |-> todo, room |-> room]

\* the answer to the sender, sent to the first room as well
Reply_to_room(m, ev) == Outcome(m, ev, ev, 1)

Reply(m, ev) == Outcome(m, ev, "none", None)

\* message_data.get(...) on a value that is no dict: AttributeError, which
\* neither `except json.JSONDecodeError` nor `except WebSocketDisconnect`
\* catches
Raises(m) == [Reply(m, "none") EXCEPT !.raises = TRUE]

\* /ws, lines 26-47
websocket_endpoint(m, client_id, f) ==
    IF f.type = "not_json" THEN Reply(m, "error")
    ELSE IF f.type = "not_mapping" THEN Raises(m)
    ELSE IF f.type = "ping" THEN Reply(m, "pong")
    ELSE Reply(m, "echo")

\* /ws/auth, lines 78-235
websocket_auth_endpoint(m, client_id, f) ==
    IF f.type = "not_json" THEN Reply(m, "error")
    ELSE IF f.type = "not_mapping" THEN Raises(m)
    ELSE IF f.type = "message" THEN
        IF f.content /\ f.room_id # None
        THEN [Outcome(m, "none", "message", f.room_id) EXCEPT !.store = TRUE]
        ELSE Reply(m, "error")
    ELSE IF f.type = "join_room" THEN
        IF f.room_id = None THEN Reply(m, "error")
        ELSE IF f.room_id = NoSuchRoom
             THEN Outcome(m, "error", "none", f.room_id)

        ELSE IF join_room_ret(m, client_id, f.room_id)
             THEN Outcome(join_room(m, client_id, f.room_id),
                          "room_joined", "user_joined", f.room_id)
             ELSE Reply(join_room(m, client_id, f.room_id), "error")
    ELSE IF f.type = "leave_room" THEN
        IF f.room_id = None THEN Reply(m, "error")
        ELSE IF leave_room_ret(m, client_id, f.room_id)
             THEN Outcome(leave_room(m, client_id, f.room_id),
                          "room_left", "user_left", f.room_id)
             ELSE Reply(leave_room(m, client_id, f.room_id), "error")
    ELSE IF f.type = "typing" THEN
        IF f.room_id = None THEN Reply(m, "none")
        ELSE Outcome(m, "none", "user_typing", f.room_id)
    ELSE IF f.type = "ping" THEN Reply(m, "pong")
    ELSE Reply(m, "error")

\* a room endpoint whose typing branch takes the sender out of the room
\* before it broadcasts
websocket_room_endpoint_leaves(m, client_id, room_id, f) ==
    IF f.type = "typing"
    THEN Outcome(leave_room(m, client_id, room_id), "none", "user_typing",
                 room_id)
    ELSE Reply(m, "error")

\* /ws/room/{room_id}, lines 328-395: the room is the one of the URL
websocket_room_endpoint(m, client_id, room_id, f) ==
    IF f.type = "not_json" THEN Reply(m, "error")
    ELSE IF f.type = "not_mapping" THEN Raises(m)
    ELSE IF f.type = "message" THEN
        IF f.content
        THEN [Outcome(m, "none", "message", room_id) EXCEPT !.store = TRUE]
        ELSE Reply(m, "error")
    ELSE IF f.type = "typing" THEN Outcome(m, "none", "user_typing", room_id)
    ELSE IF f.type = "ping" THEN Reply(m, "pong")
    ELSE Reply(m, "error")

\* the endpoint is back in `await websocket.receive_text()`
Waiting(h) ==
    [h EXCEPT !.pc = "recv", !.phase = "loop", !.ev = "none", !.room = None,
              !.todo = "none", !.slot = 0, !.msgs = {}, !.frame = "none"]

\* the endpoint has returned
Ended(h) == [Waiting(h) EXCEPT !.pc = "ended", !.phase = "none"]

\* an exception has left the endpoint: the server closes the socket, and
\* manager.disconnect is not called
Crashed(h) ==
    [Waiting(h) EXCEPT !.pc = "crashed", !.phase = "none", !.frame = h.frame]

\* after the last await of the handling of a frame, or of the except clause
Rest(h) == IF h.phase = "teardown" THEN Ended(h) ELSE Waiting(h)

\* the endpoint after a step of its broadcast_to_room call: still in it, past
\* it, or left by the exception of the call
AfterSweep(h, status) ==
    IF status = "sending" THEN [h EXCEPT !.pc = "sweep"]
    ELSE IF status = "done" THEN Rest(h)
    ELSE Crashed(h)

\* the suspended sweeps once the dicts have gone from Manager to m
Touched(m) == [s \in Slots |-> Touch(Live[s], Manager, m)]

\* Started, for dicts m written earlier in the same atomic block
StartedOn(m, sw) == [sw EXCEPT !.used = Cardinality(Container(m, sw))]

\* Continue, for dicts m0 written earlier in the same atomic block
ContinueFrom(m0, s, sw) ==
    IF IterRaises(m0, sw)
    THEN /\ sweeps' = [Touched(m0) EXCEPT ![s] = Report(sw, "iter_error")]
         /\ SetManager(m0)
    ELSE \/ \E c \in Candidates(m0, sw) :
              /\ sweeps' = [Touched(m0) EXCEPT
                              ![s] = [sw EXCEPT !.status = "sending",
                                                !.cur = c,
                                                !.attempted = @ \cup {c},
                                                !.n = @ + 1,
                                                !.again = @ \/ c \in sw.attempted]]
              /\ SetManager(m0)
         \/ /\ CanEnd(m0, sw)
            /\ LET m == disconnect_all(m0, sw.disconnected) IN
                 /\ SetManager(m)
                 /\ sweeps' = [t \in Slots |->
                                 IF t = s THEN Report(sw, "done")
                                 ELSE Touch(Touched(m0)[t], m0, m)]

\* `await manager.broadcast_to_room({"type": h.ev, ...}, h.room)` by the
\* endpoint of c, from the call to its first suspension or to its return
RoomSweep(c, m0, h) ==
    \E s \in Slots :
        /\ FreeSlot(s)
        /\ IF h.room \notin DOMAIN m0.room_connections
           THEN /\ sweeps' = [Touched(m0) EXCEPT
                                ![s] = Report(NewSweep("room", h.room), "done")]
                /\ SetManager(m0)
           ELSE ContinueFrom(m0, s, StartedOn(m0, NewSweep("room", h.room)))
        /\ handler' = [handler EXCEPT
                         ![c] = AfterSweep([h EXCEPT !.pc = "sweep", !.slot = s],
                                           sweeps'[s].status)]

\* what follows the personal send of the handling of a frame: the broadcast
\* of h.todo, or nothing
Proceed(c, m0, h) ==
    IF h.todo # "none"
    THEN RoomSweep(c, m0, [h EXCEPT !.ev = h.todo, !.todo = "none"])
    ELSE /\ Call(m0)
         /\ handler' = [handler EXCEPT ![c] = Rest(h)]

\* the sends of the handling of a frame, up to the first suspension:
\* `await manager.send_personal_message({"type": h.ev, ...}, client_id)`
\* returns at once for an id that is no key of active_connections (line 110)
Run(c, m0, h) ==
    IF h.ev # "none" /\ c \in m0.active_connections
    THEN /\ personal' = personal \cup {c}
         /\ Call(m0)
         /\ handler' = [handler EXCEPT ![c] = [h EXCEPT !.pc = "personal"]]
    ELSE /\ personal' = personal
         /\ Proceed(c, m0, h)

\* /ws is opened: lines 21-25
OpenWs ==
    /\ next_id <= MaxPeer
    /\ next_id' = next_id + 1
    /\ Run(next_id, connect(Manager, next_id, None, None),
           [NoHandler EXCEPT !.ep = "ws", !.phase = "loop",
                             !.since = Len(stored)])
    /\ UNCHANGED <<closed, refused, stored, frames>>

\* /ws/auth is opened with the token of user_id: lines 58-73
OpenAuth(user_id) ==
    /\ next_id <= MaxPeer
    /\ next_id' = next_id + 1
    /\ Run(next_id, connect(Manager, next_id, user_id, None),
           [NoHandler EXCEPT !.ep = "auth", !.phase = "setup",
                             !.user = user_id, !.since = Len(stored),
                             !.ev = "connection_established"])
    /\ UNCHANGED <<closed, refused, stored, frames>>

\* /ws/room/{room_id} is opened for a room that exists: lines 263-324.  The
\* history is the last 50 messages of the room, oldest first; fewer than 50
\* are ever stored here.
OpenRoom(user_id, room_id) ==
    /\ next_id <= MaxMember
    /\ next_id' = next_id + 1
    /\ Run(next_id, connect(Manager, next_id, user_id, room_id),
           [NoHandler EXCEPT !.ep = "room", !.phase = "setup",
                             !.user = user_id, !.path = room_id,
                             !.since = Len(stored),
                             !.ev = "message_history",
                             !.todo = "user_joined", !.room = room_id,
                             !.msgs = {i \in DOMAIN stored :
                                          stored[i].room_id = room_id}])
    /\ UNCHANGED <<closed, refused, stored, frames>>

\* receive_text returns frame f to the endpoint of c, which handles it up to
\* its first suspension
Receive(c, f) ==
    /\ handler[c].pc = "recv"
    /\ c \notin closed
    /\ frames < MaxFrames
    /\ frames' = frames + 1
    /\ LET h == handler[c]
           o == IF h.ep = "ws" THEN websocket_endpoint(Manager, c, f)
                ELSE IF h.ep = "auth"
                     THEN websocket_auth_endpoint(Manager, c, f)
                ELSE websocket_room_endpoint(Manager, c, h.path, f)
       IN IF o.raises
          THEN /\ Call(Manager)
               /\ handler' = [handler EXCEPT
                                ![c] = Crashed([h EXCEPT !.frame = f.type])]
               /\ UNCHANGED <<personal, stored>>
          ELSE /\ stored' = IF o.store
                            THEN Append(stored, [room_id |-> o.room,
                                                 user_id |-> h.user])
                            ELSE stored
               /\ Run(c, o.m,
                      [h EXCEPT !.frame = f.type,
                                !.ev = o.ev, !.todo = o.todo, !.room = o.room,
                                !.msgs = IF o.store THEN {Len(stored) + 1}
                                                    ELSE {}])
    /\ UNCHANGED <<next_id, closed, refused>>

\* an except clause that broadcasts the notice before it calls disconnect
Teardown_notice_first(c) ==
    LET h == [handler[c] EXCEPT !.phase = "teardown", !.todo = "none",
                                !.msgs = {}, !.frame = "none",
                                !.ev = "user_disconnected"]
    IN IF h.ep = "room"
       THEN RoomSweep(c, Manager, [h EXCEPT !.room = h.path])
       ELSE /\ Call(disconnect(Manager, c))
            /\ handler' = [handler EXCEPT ![c] = Ended(h)]

\* `except WebSocketDisconnect:` of the endpoint of c: lines 48-49, 236-253,
\* 396-410.  /ws/auth reads the room of the record after disconnect.
Teardown(c) ==
    LET h == [handler[c] EXCEPT !.phase = "teardown", !.todo = "none",
                                !.msgs = {}, !.frame = "none",
                                !.ev = "user_disconnected"]
        m == disconnect(Manager, c)
    IN IF h.ep = "room"
       THEN RoomSweep(c, m, [h EXCEPT !.room = h.path])
       ELSE IF h.ep = "auth" /\ InfoGet(m, c, "room_id") # None
            THEN RoomSweep(c, m, [h EXCEPT !.room = InfoGet(m, c, "room_id")])
       ELSE /\ Call(m)
            /\ handler' = [handler EXCEPT ![c] = Ended(h)]

\* receive_text raises WebSocketDisconnect: the peer of c has closed
Hangup(c) ==
    /\ handler[c].pc = "recv"
    /\ c \in closed
    /\ Teardown(c)
    /\ UNCHANGED <<next_id, closed, personal, refused, stored, frames>>

\* the send_text of the personal message of c's endpoint returns; lines
\* 114-115 run, then the endpoint goes on
ReplySent(c) ==
    /\ c \in personal
    /\ handler[c].pc = "personal"
    /\ personal' = personal \ {c}
    /\ Proceed(c, touch(Manager, c), handler[c])
    /\ UNCHANGED <<next_id, closed, refused, stored, frames>>

\* the send_text of the personal message raises.  WebSocketDisconnect raised
\* in the try reaches the except clause; any other exception, or one raised
\* before the try (lines 65-73, 302-324), leaves the endpoint.
ReplyFails(c) ==
    /\ c \in personal
    /\ handler[c].pc = "personal"
    /\ c \in closed
    /\ personal' = personal \ {c}
    /\ \/ /\ handler[c].phase = "loop"
          /\ Teardown(c)
       \/ /\ Call(Manager)
          /\ handler' = [handler EXCEPT ![c] = Crashed(handler[c])]
    /\ UNCHANGED <<next_id, closed, refused, stored, frames>>

\* the endpoint whose broadcast call runs in slot s, after a step of the call
Resume(s) ==
    handler' = [c \in Peers |->
                  IF handler[c].pc = "sweep" /\ handler[c].slot = s
                  THEN AfterSweep(handler[c], sweeps'[s].status)
                  ELSE handler[c]]

\* SendReturns, SendDisconnects and SendRaises for the broadcast of an
\* endpoint
NoticeSent(s) ==
    LET sw == sweeps[s] IN
    /\ sw.status = "sending"
    /\ sw.cur \notin closed
    /\ Continue(s, [sw EXCEPT !.delivered = @ \cup {sw.cur}])
    /\ Resume(s)
    /\ UNCHANGED <<next_id, closed, personal, refused, stored, frames>>

NoticeDisconnects(s) ==
    LET sw == sweeps[s] IN
    /\ sw.status = "sending"
    /\ sw.cur \in closed
    /\ Continue(s, [sw EXCEPT !.disconnected = @ \cup {sw.cur},
                               !.twice = @ \/ sw.cur \in sw.disconnected])
    /\ Resume(s)
    /\ UNCHANGED <<next_id, closed, personal, refused, stored, frames>>

NoticeRaises(s) ==
    LET sw == sweeps[s] IN
    /\ sw.status = "sending"
    /\ sw.cur \in closed
    /\ sweeps' = [Live EXCEPT ![s] = Report(sw, "send_error")]
    /\ Resume(s)
    /\ UNCHANGED <<registry, raised, next_id, closed, personal, refused,
                   stored, frames>>

\* The pending send_text of sweep s returns although the peer has closed
\* (the bytes of a send begun before the close may already be with the
\* transport), and lines 145-146 run for an id that the endpoint's disconnect
\* may have removed in the meantime.
SendReturnsLate(s) ==
    LET sw == sweeps[s] IN
    /\ sw.status = "sending"
    /\ sw.cur \in closed
    /\ ContinueFrom(touch(Manager, sw.cur), s,
                    [sw EXCEPT !.delivered = @ \cup {sw.cur}])
    /\ UNCHANGED <<next_id, closed, personal, refused, endpoints>>

\* The calls an endpoint makes for its connection (routers/websocket.py:
\* connect, send_personal_message, join_room, leave_room, broadcast_to_room,
\* disconnect), with personal sends and one room broadcast in progress.
\* An endpoint suspended in a personal send is not in its `except
\* WebSocketDisconnect` clause; a broadcast's cleanup can still disconnect
\* its connection.
NextPersonal ==
    \/ Connect(None, None)                                    \* /ws
    \/ \E u \in Users : Connect(u, None)                      \* /ws/auth
    \/ \E u \in Users, r \in Rooms : Connect(u, r)            \* /ws/room/{id}

    \/ \E c \in Clients : TransportClose(c)
    \/ \E c \in Clients : c \notin personal /\ Disconnect(c)
    \/ \E c \in Clients, r \in Rooms : JoinRoom(c, r)
    \/ \E c \in Clients, r \in Rooms : LeaveRoom(c, r)
    \/ \E c \in Clients : SendPersonalMessage(c)
    \/ \E c \in Clients : PersonalReturns(c)
    \/ \E c \in Clients : PersonalRaises(c)
    \/ \E s \in Sweeps, r \in Rooms : BroadcastToRoom(s, r)
    \/ \E s \in Sweeps : SendReturns(s)
    \/ \E s \in Sweeps : SendReturnsLate(s)
    \/ \E s \in Sweeps : SendDisconnects(s)
    \/ \E s \in Sweeps : SendRaises(s)

SpecPersonal == Init /\ [][NextPersonal]_vars

NextEndpoint ==
    \/ OpenWs
    \/ \E u \in Users : OpenAuth(u)
    \/ \E u \in Users, r \in Rooms : next_id <= MaxPeer /\ OpenRoom(u, r)
    \/ \E c \in Peers : TransportClose(c)
    \/ \E c \in Peers, f \in Frames : Receive(c, f)
    \/ \E c \in Peers : Hangup(c)
    \/ \E c \in Peers : ReplySent(c)
    \/ \E c \in Peers : ReplyFails(c)
    \/ \E s \in Slots : NoticeSent(s)
    \/ \E s \in Slots : NoticeDisconnects(s)
    \/ \E s \in Slots : NoticeRaises(s)

SpecEndpoint == Init /\ [][NextEndpoint]_vars

\* The room endpoint alone, serving peers that stay connected: connections
\* are opened, their frames are handled, and every send returns.
NextRoom ==
    \/ \E u \in Users, r \in Rooms : OpenRoom(u, r)
    \/ \E c \in Peers, f \in Frames : Receive(c, f)
    \/ \E c \in Peers : ReplySent(c)
    \/ \E s \in Slots : NoticeSent(s)

SpecRoom == Init /\ [][NextRoom]_vars

\* =================================================================== claims
\* c is in none of the four dicts
Removed(c) ==
    /\ c \notin active_connections
    /\ c \notin DOMAIN connection_info
    /\ \A r \in DOMAIN room_connections : c \notin room_connections[r]
    /\ \A u \in DOMAIN user_connections : c \notin user_connections[u]

\* the rooms whose member set holds c
RoomsOf(c) == {r \in DOMAIN room_connections : c \in room_connections[r]}

\* C1: every connection id in a set of room_connections or user_connections
\* is a key of active_connections, and no value of the two indexes is an
\* empty set.
C1_IndexesHoldOnlyLiveIds ==
    /\ \A r \in DOMAIN room_connections :
          /\ room_connections[r] # {}
          /\ room_connections[r] \subseteq active_connections
    /\ \A u \in DOMAIN user_connections :
          /\ user_connections[u] # {}
          /\ user_connections[u] \subseteq active_connections

\* C2: c is in room_connections[r] only if connection_info[c] exists and its
\* room_id is r, so a connection id is in at most one room's member set.
C2_RoomIndexMatchesRecord ==
    \A r \in DOMAIN room_connections : \A c \in room_connections[r] :
        /\ c \in DOMAIN connection_info
        /\ connection_info[c].room_id = r

\* C3: a join_room(c, r2) of a registered connection leaves c in room r2
\* only: afterwards no other room's member set contains c and c's record
\* has room_id = r2.
C3_JoinMovesConnection ==
    [][\A c \in Clients, r2 \in Rooms :
          (c \in active_connections /\ JoinRoom(c, r2))
          => /\ connection_info'[c].room_id = r2
             /\ \A q \in DOMAIN room_connections' :
                   c \in room_connections'[q] => q = r2]_vars

\* C4: disconnect of an id that is not registered (a second disconnect, or
\* an id never registered) returns without raising and leaves the four
\* dicts as they were.
C4_DisconnectIdempotent ==
    [][\A c \in Clients :
          (c \notin active_connections /\ Disconnect(c))
          => (UNCHANGED registry /\ ~raised')]_vars

\* C4 witness: a connection that was registered has been disconnected, with
\* another one still registered whose entries a second call must not touch.
C4_Witness ==
    \E c \in Clients :
        /\ c < next_id
        /\ c \notin active_connections
        /\ active_connections # {}

\* the ids whose send_text raised in the call of sweep record sw
FailedIn(sw) ==
    sw.disconnected \cup (IF sw.status = "send_error" THEN {sw.cur} ELSE {})

\* in this step sweep s calls send_text for c
AttemptMade(s, c) ==
    /\ sweeps'[s].status = "sending"
    /\ sweeps'[s].cur = c
    /\ sweeps[s].status # "sending" \/ sweeps'[s].n # sweeps[s].n

\* C5: when a broadcast to a room that had members with a dead transport
\* has returned, it has delivered to exactly the working members, and the
\* dead connections are in none of the four dicts.
C5_DeadMemberRetired ==
    \A s \in Slots :
        LET sw == sweeps[s] IN
        (sw.kind = "room" /\ sw.status = "done" /\ sw.disconnected # {})
        => /\ sw.delivered = sw.attempted \ sw.disconnected
           /\ \A c \in Container(Manager, sw) \cap active_connections :
                 c \notin closed => c \in sw.delivered
           /\ \A c \in sw.disconnected : Removed(c)

\* C6: a sweep over a room whose member set lost a member to a disconnect
\* while the sweep was suspended is not aborted by the iteration, and no
\* send of a sweep completes for a connection that is no longer registered.
C6_SweepsSurviveDisconnect ==
    [][\A s \in Slots :
          LET sw == sweeps[s] IN
          (sw.status = "sending" /\ sw.kind = "room")
          => /\ Cardinality(Container(Manager, sw)) < sw.used
                    => sweeps'[s].status # "iter_error"
             /\ (sweeps'[s].delivered \ sw.delivered) \subseteq active_connections
      ]_vars

\* C7: when a send of a sweep has failed, whatever it raised, every other
\* registered recipient of the sweep has had its delivery attempt by the
\* time the call ends.
C7_FailureIsolated ==
    \A s \in Slots :
        LET sw == sweeps[s] IN
        (sw.status \in {"done", "send_error"} /\ FailedIn(sw) # {})
        => (Container(Manager, sw) \cap active_connections) \subseteq sw.attempted

\* C8: within one sweep an id is put on the disconnected list once, and the
\* cleanup of a sweep changes the entries of no connection other than the
\* ids on its list that are still registered (a disconnect of an id already
\* removed is a no-op).
C8_DisconnectedOnce ==
    [][\A s \in Slots :
          /\ ~sweeps'[s].twice
          /\ (sweeps[s].status = "sending" /\ sweeps'[s].status = "done")
             => \A c \in Clients \ (sweeps'[s].disconnected \cap active_connections) :
                   /\ c \in active_connections' <=> c \in active_connections
                   /\ c \in DOMAIN connection_info'
                          <=> c \in DOMAIN connection_info
                   /\ c \in DOMAIN connection_info
                          => connection_info'[c] = connection_info[c]
                   /\ {r \in DOMAIN room_connections' : c \in room_connections'[r]}
                          = RoomsOf(c)
                   /\ {u \in DOMAIN user_connections' : c \in user_connections'[u]}
                          = {u \in DOMAIN user_connections : c \in user_connections[u]}
      ]_vars

\* C9: every connection whose send failed in a sweep is eventually in none
\* of the four dicts.
C9_FailedEventuallyRemoved ==
    \A c \in Clients :
        (\E s \in Slots : c \in FailedIn(sweeps[s])) ~> Removed(c)

\* C10: once a sweep has caught the failure of a send to c, no sweep calls
\* send_text for c again.
C10_NoAttemptAfterFailure ==
    [][\A c \in Clients :
          (\E t \in Slots : c \in sweeps[t].disconnected)
          => \A s \in Slots : ~AttemptMade(s, c)]_vars
\* sweep s over room r is suspended in a send to another connection and has
\* not yet called send_text for c, a registered member of r whose peer is
\* there; r's member set is as it was when the sweep started
Owed(s, c, r) ==
    LET sw == sweeps[s] IN
    /\ sw.status = "sending" /\ sw.kind = "room" /\ sw.target = r
    /\ sw.obj = "clean"
    /\ sw.cur # c
    /\ c \notin sw.attempted
    /\ c \in Container(Manager, sw) \cap active_connections
    /\ c \notin closed

\* C11: a send that never completes does not hold up the others: every
\* other registered member of the room with a working transport is
\* eventually sent the message (or has left, closed or been disconnected),
\* and join_room / leave_room / disconnect calls stay enabled while a send
\* is pending.
C11_StalledSendHoldsNobodyUp ==
    /\ \A s \in Sweeps, c \in Clients, r \in Rooms :
          Owed(s, c, r)
          ~> \/ sweeps[s].status = "sending" /\ sweeps[s].cur = c
             \/ c \notin active_connections
             \/ c \in closed
             \/ r \notin DOMAIN room_connections
             \/ c \notin room_connections[r]
    /\ [](\A s \in Sweeps :
            sweeps[s].status = "sending"
            => \A c \in Clients \ {sweeps[s].cur}, r \in Rooms :
                  /\ ENABLED JoinRoom(c, r)
                  /\ ENABLED LeaveRoom(c, r)
                  /\ c \notin active_connections => ENABLED Disconnect(c))

\* C12: when the only member of room r, whose record names r, is
\* disconnected without a leave_room, r stops being a key of
\* room_connections; and a broadcast to a room that is no key of
\* room_connections calls send_text for nobody and leaves the four dicts as
\* they were.
C12_LoneMemberGonePrunesRoom ==
    [][/\ \A c \in Clients, r \in Rooms :
             (/\ c \in active_connections
              /\ connection_info[c].room_id = r
              /\ r \in DOMAIN room_connections
              /\ room_connections[r] = {c}
              /\ Disconnect(c))
             => r \notin DOMAIN room_connections'
       /\ \A s \in Slots, r \in Rooms :
             (r \notin DOMAIN room_connections /\ BroadcastToRoom(s, r))
             => /\ UNCHANGED registry
                /\ sweeps'[s].status = "done"
                /\ sweeps'[s].attempted = {}
                /\ sweeps'[s].delivered = {}]_vars

\* C12 witness: a connection whose peer had closed is in none of the dicts,
\* no room is left, and a broadcast to a room has returned without a send.
C12_Witness ==
    \E s \in Slots, c \in Clients :
        /\ c \in closed /\ Removed(c)
        /\ room_connections = << >>
        /\ sweeps[s].kind = "room" /\ sweeps[s].status = "done"
        /\ sweeps[s].attempted = {}

\* C13: leave_room(c, r) returns True exactly when the room_id of c's record
\* is r; then c is no longer in r's member set (r is popped when the set is
\* empty) and the record's room_id is None; in every other case it returns
\* False and leaves the four dicts as they were.
C13_LeaveChecksRecordRoom ==
    [][\A c \in Clients, r \in Rooms :
          LeaveRoom(c, r)
          => LET ret == leave_room_ret(Manager, c, r) IN
             /\ ret <=> InfoGet(Manager, c, "room_id") = r
             /\ ret => /\ r \in DOMAIN room_connections'
                            => /\ c \notin room_connections'[r]
                               /\ room_connections'[r] # {}
                       /\ connection_info'[c].room_id = None
                       /\ ~raised'
             /\ ~ret => UNCHANGED registry]_vars

\* C14: join_room(c, r) for an id that is no key of active_connections
\* (never connected, or disconnected) returns False and leaves the four
\* dicts as they were: no room entry and no record appears for c.
C14_JoinUnknownIsNoOp ==
    \A c \in Clients, r \in Rooms :
        c \notin active_connections
        => /\ ~join_room_ret(Manager, c, r)
           /\ join_room(Manager, c, r) = Manager


\* C14 witness: an id that was registered and is in none of the dicts, while
\* a room exists that a join for it could have touched.
C14_Witness ==
    \E c \in Clients :
        /\ c < next_id
        /\ Removed(c)
        /\ room_connections # << >>

\* the users whose connection set holds c
UsersOf(c) == {u \in DOMAIN user_connections : c \in user_connections[u]}

\* C15: a connection id that has been registered and is no key of
\* active_connections any more never comes back: no join_room, leave_room,
\* send_personal_message or broadcast step makes it a key of
\* active_connections or of connection_info again, or adds it to a room's or
\* a user's set.
C15_DisconnectedIsTerminal ==
    [][\A c \in Clients :
          (c < next_id /\ c \notin active_connections)
          => /\ c \notin active_connections'
             /\ c \notin DOMAIN connection_info'
             /\ {r \in DOMAIN room_connections' : c \in room_connections'[r]}
                    \subseteq RoomsOf(c)
             /\ {u \in DOMAIN user_connections' : c \in user_connections'[u]}
                    \subseteq UsersOf(c)]_vars

\* C15 witness: c has been disconnected while its personal send was
\* suspended and while another connection is registered in a room that a
\* later join_room, leave_room or broadcast for c could touch.
C15_Witness ==
    \E c \in Clients :
        /\ c < next_id
        /\ c \notin active_connections
        /\ c \in personal
        /\ \E d \in active_connections : RoomsOf(d) # {}

\* C16: active_connections and connection_info have the same keys in every
\* state a task can observe: connect adds both and disconnect removes both
\* between two suspension points.
C16_HandleAndRecordTogether ==
    DOMAIN connection_info = active_connections

\* C16 witness: a connection has been disconnected after its peer closed,
\* and another one is still registered.
C16_Witness ==
    \E c \in closed :
        /\ c \notin active_connections
        /\ c \notin DOMAIN connection_info
        /\ connection_info # << >>

\* in this step the entries of connection d stay as they are
EntriesKept(d) ==
    /\ d \in active_connections' <=> d \in active_connections
    /\ d \in DOMAIN connection_info' <=> d \in DOMAIN connection_info
    /\ d \in DOMAIN connection_info => connection_info'[d] = connection_info[d]
    /\ {r \in DOMAIN room_connections' : d \in room_connections'[r]} = RoomsOf(d)
    /\ {u \in DOMAIN user_connections' : d \in user_connections'[u]} = UsersOf(d)

\* C17: a connect call whose accept has returned does not fail; the id it
\* registers was not registered before, afterwards it is a key of
\* active_connections and connection_info, it is in room_connections[r] iff
\* room_id r was given and in user_connections[u] iff user_id u was given,
\* and the entries of the connections registered before are unchanged.
C17_ConnectRegistersFreshId ==
    [][\A u \in Users \cup {None}, r \in Rooms \cup {None} :
          (Connect(u, r) \/ ConnectCommitRaises(u, r))
          => LET c == next_id IN
             /\ ~raised'
             /\ c \notin active_connections /\ c \notin DOMAIN connection_info
             /\ c \in active_connections' /\ c \in DOMAIN connection_info'
             /\ \A q \in Rooms :
                   (q \in DOMAIN room_connections' /\ c \in room_connections'[q])
                   <=> q = r
             /\ \A v \in Users :
                   (v \in DOMAIN user_connections' /\ c \in user_connections'[v])
                   <=> v = u
             /\ \A d \in Clients \ {c} : EntriesKept(d)]_vars

\* C18: a connect call whose accept raises leaves the four dicts exactly as
\* they were: no handle, record, room membership or user membership has
\* been added for the connection that failed.
C18_AcceptFailureLeavesRegistry ==
    \A u \in Users \cup {None}, r \in Rooms \cup {None} :
        LET m == connect_accept_fails(Manager, u, r) IN
        /\ m.active_connections = active_connections
        /\ m.connection_info = connection_info
        /\ m.room_connections = room_connections
        /\ m.user_connections = user_connections

\* C18 witness: a connect call has failed in accept while a connection was
\* registered in a room, and no id was used up by the failed call.
C18_Witness ==
    /\ refused > 0
    /\ Cardinality(active_connections) = next_id - 1
    /\ room_connections # << >>

\* C19: what get_connections_info returns is one consistent view of the
\* registry: active_connections is the number of registered handles,
\* total_connections the number of records, and the count reported for a
\* room is the number of registered connections whose record names that
\* room (a room with no such connection is not reported).
C19_SnapshotCountsConsistent ==
    LET info == get_connections_info(Manager) IN
    /\ info.active_connections = Cardinality(active_connections)
    /\ info.total_connections = Cardinality(DOMAIN connection_info)
    /\ \A r \in Rooms :
          (IF r \in DOMAIN info.connections_by_room
           THEN info.connections_by_room[r] ELSE 0)
          = Cardinality({c \in active_connections :
                            InfoGet(Manager, c, "room_id") = r})

\* C20: a sweep over room r sends only to connections of r: a connection
\* whose record does not name r when the sweep starts (it has moved to
\* another room before) is not sent the message by the sweep's first send.
C20_OnlyMembersAreSent ==
    [][\A s \in Slots, r \in Rooms, c \in Clients :
          (BroadcastToRoom(s, r) /\ AttemptMade(s, c))
          => InfoGet(Manager, c, "room_id") = r]_vars

\* what the four dicts of m hold for connection d
EntriesOf(m, d) ==
    [handle |-> d \in m.active_connections,
     record |-> IF d \in DOMAIN m.connection_info
                THEN <<m.connection_info[d]>> ELSE << >>,
     rooms  |-> {r \in DOMAIN m.room_connections : d \in m.room_connections[r]},
     users  |-> {u \in DOMAIN m.user_connections : d \in m.user_connections[u]}]

\* C21: disconnecting connections, one by its endpoint or several by the
\* cleanup loop of a broadcast, leaves the handle, record, room memberships
\* and user memberships of every other connection as they were, and a
\* broadcast to a room started afterwards still sends to every other
\* registered member of that room.
C21_DisconnectSparesOthers ==
    \A D \in SUBSET active_connections :
        LET m == disconnect_all(Manager, D) IN
        \A d \in active_connections \ D :
            /\ EntriesOf(m, d) = EntriesOf(Manager, d)
            /\ \A r \in RoomsOf(d) : d \in Recipients(m, r)

\* C21 witness: a connection whose peer had closed has been disconnected
\* while another connection of the same user is registered in a room.
C21_Witness ==
    \E c \in closed, d \in active_connections :
        /\ c \notin active_connections
        /\ RoomsOf(d) # {}
        /\ UsersOf(d) # {}

\* the frames C22 calls malformed or of an unrecognized type
Malformed == {"not_json", "not_mapping", "unknown"}

\* the endpoint of c reads a frame in this step
Reads(c) == handler[c].pc = "recv" /\ handler'[c].frame # "none"

\* no broadcast call is started, resumed or ended in this step
NoSweepStep ==
    \A s \in Slots : sweeps'[s].status = "sending" => sweeps'[s] = sweeps[s]

\* C22: when an authenticated endpoint reads a frame that is not JSON, is
\* JSON but no mapping, or has an unrecognized type, it sends an error event
\* to the sender and to nobody else, the registry stays as it is, and when
\* that send returns the endpoint is reading frames again.
C22_MalformedFrameAnswered ==
    [][\A c \in Peers :
         /\ (/\ Reads(c)
             /\ handler[c].ep \in {"auth", "room"}
             /\ handler'[c].frame \in Malformed)
            => /\ handler'[c].pc = "personal"
               /\ handler'[c].ev = "error"
               /\ handler'[c].todo = "none"
               /\ personal' = personal \cup {c}
               /\ NoSweepStep
               /\ UNCHANGED registry
         /\ (/\ handler[c].frame \in Malformed
             /\ handler[c].pc = "personal"
             /\ c \notin personal'
             /\ c \notin closed)
            => /\ handler'[c].pc = "recv"
               /\ c \in active_connections'
               /\ NoSweepStep]_vars

\* the pending personal send of the endpoint of c ends in this step
ReplyEnds(c) == c \in personal /\ c \notin personal'

\* C23: an endpoint that reads a ping frame calls send_text once, for a pong
\* event on the sender's own socket, starts no broadcast, and leaves the four
\* dicts as they are; when the send returns nothing else is sent and the
\* dicts are still the same.
C23_PingGetsOnePong ==
    [][\A c \in Peers :
         /\ (Reads(c) /\ handler'[c].frame = "ping")
            => /\ handler'[c].pc = "personal"
               /\ handler'[c].ev = "pong"
               /\ handler'[c].todo = "none"
               /\ personal' = personal \cup {c}
               /\ NoSweepStep
               /\ UNCHANGED registry
         /\ (handler[c].frame = "ping" /\ ReplyEnds(c) /\ c \notin closed)
            => /\ handler'[c].pc = "recv"
               /\ personal' = personal \ {c}
               /\ NoSweepStep
               /\ UNCHANGED registry]_vars

\* C23 witness: a pong is being sent to a member of a room while another
\* connection is registered.
C23_Witness ==
    \E c \in Peers, d \in active_connections :
        /\ d # c
        /\ handler[c].frame = "ping"
        /\ handler[c].ev = "pong"
        /\ RoomsOf(c) # {}

\* the broadcast call in slot s makes a step: its pending send ends
SweepStep(s) ==
    /\ sweeps[s].status = "sending"
    /\ \/ sweeps'[s].status # "sending"
       \/ sweeps'[s].n # sweeps[s].n

\* the endpoint of c is in the broadcast that handles a frame of this kind,
\* and the broadcast makes a step
Sweeping(c, kind) ==
    /\ handler[c].frame = kind
    /\ handler[c].pc = "sweep"
    /\ SweepStep(handler[c].slot)

\* C24: an endpoint of /ws/auth or /ws/room that reads a typing frame sends nothing to the sender
\* alone and calls broadcast_to_room with a user_typing event for the room;
\* no step of that broadcast changes the handle, record or memberships of
\* the sender or of a connection the event was delivered to, and a broadcast
\* that returns undisturbed has called send_text for every registered member.
C24_TypingChangesNothing ==
    [][\A c \in Peers :
         /\ (/\ Reads(c)
             /\ handler[c].ep \in {"auth", "room"}
             /\ handler'[c].frame = "typing")
            => /\ handler'[c].pc = "sweep"

               /\ handler'[c].ev = "user_typing"
               /\ sweeps'[handler'[c].slot].kind = "room"
               /\ sweeps'[handler'[c].slot].target = handler'[c].room
               /\ personal' = personal
               /\ UNCHANGED registry
         /\ Sweeping(c, "typing")
            => LET s == handler[c].slot IN
               /\ EntriesKept(c)
               /\ \A d \in sweeps'[s].delivered : EntriesKept(d)
               /\ (sweeps'[s].status = "done" /\ sweeps[s].obj = "clean")
                  => Recipients(Manager, sweeps[s].target)
                        \subseteq sweeps'[s].attempted]_vars

\* C24, amended: as C24, for the sender and the connections the event was
\* delivered to whose send has not failed in this broadcast.  A connection
\* whose send raised WebSocketDisconnect, the sender included when its peer
\* closed while the notice went out, is disconnected by the cleanup loop.
C24_TypingSparesLiveOnes ==
    [][\A c \in Peers :
         /\ (/\ Reads(c)
             /\ handler[c].ep \in {"auth", "room"}
             /\ handler'[c].frame = "typing")
            => /\ handler'[c].pc = "sweep"
               /\ handler'[c].ev = "user_typing"
               /\ sweeps'[handler'[c].slot].kind = "room"
               /\ sweeps'[handler'[c].slot].target = handler'[c].room
               /\ personal' = personal
               /\ UNCHANGED registry
         /\ Sweeping(c, "typing")
            => LET s == handler[c].slot IN
               /\ \A d \in ({c} \cup sweeps'[s].delivered)
                              \ sweeps'[s].disconnected : EntriesKept(d)
               /\ (sweeps'[s].status = "done" /\ sweeps[s].obj = "clean")
                  => Recipients(Manager, sweeps[s].target)
                        \subseteq sweeps'[s].attempted]_vars

\* C24 witness: the broadcast of a typing notice has delivered the notice to
\* one member of the room and is sending it to the sender.
C24_Witness ==
    \E c \in Peers :
        /\ handler[c].frame = "typing"
        /\ handler[c].pc = "sweep"
        /\ sweeps[handler[c].slot].delivered # {}
        /\ sweeps[handler[c].slot].cur = c


\* the endpoint of /ws/auth serving c reads a frame of this kind
AuthReads(c, kind) ==
    /\ Reads(c)
    /\ handler[c].ep = "auth"
    /\ handler'[c].frame = kind

\* no send_text of a broadcast call is made or ends in this step
NoNotice ==
    \A s \in Slots :
        sweeps'[s].status = "sending"
            => sweeps[s].status = "sending" /\ sweeps'[s].n = sweeps[s].n

C26_LeaveThenNotice ==
    [][\A c \in Peers :
         /\ AuthReads(c, "leave_room")
            => /\ handler'[c].pc = "personal"
               /\ personal' = personal \cup {c}
               /\ NoNotice
               /\ handler'[c].ev \in {"room_left", "error"}
               /\ handler'[c].ev = "room_left"
                  => /\ leave_room_ret(Manager, c, handler'[c].room)
                     /\ handler'[c].todo = "user_left"
                     /\ c \notin Container(Manager', NewSweep("room", handler'[c].room))
                     /\ \A d \in Peers \ {c} : EntriesKept(d)
               /\ handler'[c].ev = "error"
                  => /\ handler'[c].todo = "none"
                     /\ UNCHANGED registry
         /\ (/\ handler[c].ep = "auth"
             /\ handler[c].frame = "leave_room"
             /\ ReplyEnds(c)
             /\ c \notin closed)
            => IF handler[c].ev = "room_left"
                  /\ Recipients(Manager, handler[c].room) # {}
               THEN /\ handler'[c].pc = "sweep"
                    /\ handler'[c].ev = "user_left"
                    /\ sweeps'[handler'[c].slot].target = handler[c].room
                    /\ sweeps'[handler'[c].slot].cur # c
               ELSE /\ handler'[c].pc = "recv"
                    /\ NoNotice
         /\ handler[c].ep = "auth" /\ Sweeping(c, "leave_room")
            => LET s == handler[c].slot IN
               /\ c \notin sweeps'[s].attempted
               /\ (sweeps'[s].status = "done" /\ sweeps[s].obj = "clean")
                  => Recipients(Manager, handler[c].room)
                        \subseteq sweeps'[s].attempted]_vars

\* C26 witness: the user_left notice of a leave is being sent to the member
\* that remains in the room.
C26_Witness ==
    \E c \in Peers :
        /\ handler[c].frame = "leave_room"
        /\ handler[c].pc = "sweep"
        /\ sweeps[handler[c].slot].cur # c
        /\ c \in active_connections
        /\ c \notin closed

\* d is a connection of the room endpoint of room r that was opened before
\* message k was stored, is still registered in r, and whose peer is open
Listening(d, r, k) ==
    /\ handler[d].ep = "room"
    /\ handler[d].path = r
    /\ handler[d].since < k
    /\ d \in Recipients(Manager, r)
    /\ d \notin closed

\* C27: when the room endpoint of A reads a message frame with content, the
\* Message row is stored in that step and the broadcast of the message event
\* with that row's id and A's user id to the room starts; when the broadcast
\* call ends, the event has been delivered to every connection of the room
\* that was opened before the message was stored and is still connected (A
\* and B).  A connection opened later is sent a message_history event with
\* all the stored messages of the room, and then only user_joined.
C27_StoredThenDeliveredToAll ==
    [][\A c \in Peers :
         /\ (/\ Reads(c)
             /\ handler[c].ep = "room"
             /\ handler'[c].frame = "message"
             /\ handler'[c].ev = "message")
            => /\ stored' = Append(stored, [room_id |-> handler[c].path,
                                            user_id |-> handler[c].user])
               /\ handler'[c].msgs = {Len(stored')}
               /\ handler'[c].pc = "sweep"
               /\ sweeps'[handler'[c].slot].target = handler[c].path
         /\ (/\ handler[c].ep = "room"
             /\ Sweeping(c, "message")
             /\ sweeps'[handler[c].slot].status # "sending")
            => \A d \in Peers, k \in handler[c].msgs :
                  Listening(d, handler[c].path, k)
                     => d \in sweeps'[handler[c].slot].delivered
         /\ (handler[c].pc = "none" /\ handler'[c].ep = "room")
            => /\ handler'[c].ev = "message_history"
               /\ handler'[c].todo = "user_joined"
               /\ handler'[c].msgs = {i \in DOMAIN stored :
                                         stored[i].room_id = handler'[c].path}]_vars

\* C28: join_room(c, r) for a registered connection whose record already
\* names room r returns True and leaves the four dicts exactly as they are.
C28_JoinCurrentRoomIsNoOp ==
    \A c \in active_connections, r \in Rooms :
        InfoGet(Manager, c, "room_id") = r
            => /\ join_room_ret(Manager, c, r)
               /\ join_room(Manager, c, r) = Manager

\* C28 witness: a connection's record names a room that it entered by
\* join_room after it was connected to another room.
C28_Witness ==
    \E c \in active_connections :
        /\ InfoGet(Manager, c, "room_id") # None
        /\ Cardinality(RoomsOf(c)) = 2

\* C29: send_personal_message for an id that is no key of active_connections
\* calls no send_text and writes nothing; and when the send_text of a personal
\* message or of a broadcast returns or raises for a connection that was
\* disconnected while the send was suspended, the last_active update makes no
\* record and no handle for it.
C29_TouchSkipsAbsent ==
    [][\A c \in Clients :
         /\ (c \notin active_connections /\ SendPersonalMessage(c))
            => /\ personal' = personal
               /\ UNCHANGED registry
         /\ (c \notin active_connections /\ ReplyEnds(c))
            => UNCHANGED registry
         /\ \A s \in Sweeps :
               (/\ sweeps[s].status = "sending"
                /\ sweeps[s].cur = c
                /\ c \notin active_connections
                /\ SweepStep(s))
               => /\ c \notin active_connections'
                  /\ c \notin DOMAIN connection_info']_vars

\* C29 witness: the send_text of a broadcast is suspended for a connection
\* that has been disconnected since the send began, while a personal send to
\* another disconnected connection is suspended too.
C29_Witness ==
    \E s \in Sweeps, c \in personal :
        /\ sweeps[s].status = "sending"
        /\ sweeps[s].cur \notin active_connections
        /\ c \notin active_connections

\* the endpoint of c goes through its `except WebSocketDisconnect` clause in
\* this step
TornDown(c) ==
    /\ handler[c].phase = "loop"
    /\ handler'[c].pc = "ended" \/ handler'[c].phase = "teardown"

\* C30: when the endpoint of /ws/auth of a connection whose record names
\* room r handles the disconnect of its peer, the connection is removed from
\* active_connections and connection_info, and if registered members remain
\* in r the endpoint broadcasts a user_disconnected event naming r to them.
C30_AuthDisconnectNotifiesRoom ==
    [][\A c \in Peers :
         LET r == InfoGet(Manager, c, "room_id") IN
         (/\ handler[c].ep = "auth"
          /\ TornDown(c)
          /\ r # None)
         => /\ c \notin active_connections'
            /\ c \notin DOMAIN connection_info'
            /\ Recipients(Manager, r) \ {c} # {}
               => /\ handler'[c].pc = "sweep"
                  /\ handler'[c].ev = "user_disconnected"
                  /\ handler'[c].room = r]_vars

\* the endpoint of c is in the broadcast of its except clause, and the
\* broadcast makes a step
Notifying(c) ==
    /\ handler[c].phase = "teardown"
    /\ handler[c].pc = "sweep"
    /\ SweepStep(handler[c].slot)

\* C31: when the endpoint of /ws/room/{room_id} of c handles the disconnect
\* of its peer, c is out of the four dicts in the step in which the
\* broadcast of user_disconnected to the room of the URL is called: the
\* first send_text of that broadcast is for a registered member that remains
\* (none is made when no member remains), no send_text of it is ever for c,
\* and an undisturbed broadcast calls send_text for every registered member
\* that remains.
C31_RoomDisconnectThenNotice ==
    [][\A c \in Peers :
         /\ (handler[c].ep = "room" /\ TornDown(c))
            => LET r == handler[c].path IN
               /\ c \notin active_connections'
               /\ c \notin DOMAIN connection_info'
               /\ \A q \in DOMAIN room_connections' :
                     c \notin room_connections'[q]
               /\ \A u \in DOMAIN user_connections' :
                     c \notin user_connections'[u]
               /\ IF Recipients(Manager', r) # {}
                  THEN /\ handler'[c].pc = "sweep"
                       /\ handler'[c].ev = "user_disconnected"
                       /\ sweeps'[handler'[c].slot].target = r
                       /\ sweeps'[handler'[c].slot].cur
                             \in Recipients(Manager', r) \ {c}
                  ELSE /\ handler'[c].pc = "ended"
                       /\ NoNotice
         /\ (handler[c].ep = "room" /\ Notifying(c))
            => LET s == handler[c].slot IN
               /\ c \notin sweeps'[s].attempted
               /\ (sweeps'[s].status = "done" /\ sweeps[s].obj = "clean")
                  => Recipients(Manager, handler[c].path)
                        \subseteq sweeps'[s].attempted]_vars

\* C31 witness: the room endpoint of a connection that is out of the
\* registry is sending user_disconnected to the member that remains.

C31_Witness ==
    \E c \in Peers :
        /\ handler[c].ep = "room"
        /\ handler[c].phase = "teardown"
        /\ handler[c].pc = "sweep"
        /\ c \notin active_connections
        /\ sweeps[handler[c].slot].cur \in active_connections


\* the ids registered with user id u: a handle, and a record naming u
DevicesOf(m, u) ==
    {c \in m.active_connections :
        c \in DOMAIN m.connection_info /\ m.connection_info[c].user_id = u}

\* the user index of m, read as a set of <<user id, connection id>> pairs
UserPairs(m) ==
    {<<u, c>> \in Owners \X Clients :
        u \in DOMAIN m.user_connections /\ c \in m.user_connections[u]}

\* C32: in every reachable state an id is in user_connections[u] exactly when
\* it is registered with a record whose user_id is u, and no entry of the
\* user index is empty.  join_room and leave_room, for any id and room, leave
\* user_connections as it is.  disconnect of a registered connection of user
\* u takes that id, and nothing else, out of the index: the entry of u is
\* popped when the id was its only member and otherwise keeps the user's
\* other connections, and the entries of the other users are as they were.
C32_UserIndexMatchesRecord ==
    /\ DOMAIN user_connections \subseteq Owners
    /\ \A u \in DOMAIN user_connections :
          /\ user_connections[u] # {}
          /\ user_connections[u] = DevicesOf(Manager, u)
    /\ \A u \in Owners :
          DevicesOf(Manager, u) # {} => u \in DOMAIN user_connections
    /\ \A c \in Clients, r \in Rooms :
          /\ join_room(Manager, c, r).user_connections = user_connections
          /\ leave_room(Manager, c, r).user_connections = user_connections
    /\ \A c \in active_connections :
          LET u == InfoGet(Manager, c, "user_id")
              m == disconnect(Manager, c)
          IN /\ UserPairs(m) = UserPairs(Manager) \ {<<u, c>>}
             /\ \A v \in DOMAIN m.user_connections : m.user_connections[v] # {}
             /\ DOMAIN m.user_connections =
                   {v \in DOMAIN user_connections :
                       user_connections[v] # {c}}

\* C32 witness: a user is connected from two devices, one of them in two
\* rooms after a join_room and with its peer closed, so that its disconnect
\* is due while the other device stays.
C32_Witness ==
    \E u \in DOMAIN user_connections, c \in closed :
        /\ c \in user_connections[u]
        /\ Cardinality(user_connections[u]) = 2
        /\ Cardinality(RoomsOf(c)) = 2

\* every broadcast call that is suspended in a send comes to its end
SweepsEnd ==
    \A s \in Sweeps :
        (sweeps[s].status = "sending") ~> (sweeps[s].status # "sending")

\* C33: when every pending send completes or fails, every broadcast call
\* comes to its end, and within one call send_text is never called a second
\* time for an id it was already called for.
C33_SweepEndsAttemptingOnce ==
    /\ SweepsEnd
    /\ [](\A s \in Sweeps : ~sweeps[s].again)
====
